---- MODULE Spec2Model ----
(***************************************************************************)
(* Breakout detector of src/src/types/chart.ts (detectBreakout) as a state *)
(* machine: one call is Enter, then one Iterate per loop index, then       *)
(* Return (or Throw when the loop body dereferences an undefined candle).  *)
(* Prices are integers; the factors 1.002 and 0.998 are kept exact as      *)
(* 1002/1000 and 998/1000.  Arrays are sequences, addressed through the    *)
(* zero-based indices of the source.                                       *)
(***************************************************************************)
EXTENDS Integers, Sequences, FiniteSets, TLC

VARIABLES candles, period, pc, i, signals, outcome, reads, second, prev, given

vars == <<candles, period, pc, i, signals, outcome, reads, second, prev, given>>

\* ------------------------------------------------------------------ bounds
MaxLen == 3
MaxPeriod == 3

\* ------------------------------------------------------- program constants
ResistanceFactor == 1002
SupportFactor == 998

\* ------------------------------------------------------------------ inputs
Max2(a, b) == IF a >= b THEN a ELSE b
Min2(a, b) == IF a <= b THEN a ELSE b

\* A candle without wicks: high and low are the ends of the body.
Bar(o, c) == [open |-> o, high |-> Max2(o, c), low |-> Min2(o, c), close |-> c, volume |-> 0]
\* A candle with explicit extremes (not necessarily low <= high).
Raw(o, h, l, c) == [open |-> o, high |-> h, low |-> l, close |-> c, volume |-> 0]

\* Well-formed positive candles around the 0.2% thresholds of the level 1000
\* (1002 = 1000 * 1.002, 998 = 1000 * 0.998).
MarketCandles == { Bar(o, c) : o \in {1000, 1002}, c \in {998, 1000, 1002, 1004} }

\* Candles with no validation applied: flat ones (one of them negative), one
\* with a body, and one whose high lies below its low.
LooseCandles ==
    { Raw(p, p, p, p) : p \in {-1000, 0, 400, 1000} }
        \cup { Bar(0, 400), Raw(400, 0, 1000, 400) }

Ascending(n) == [k \in 1..n |-> k]
Descending(n) == [k \in 1..n |-> n + 1 - k]
Constant(n) == [k \in 1..n |-> 1]

Stamp(bars, times) ==
    [k \in 1..Len(bars) |->
        [time |-> times[k], open |-> bars[k].open, high |-> bars[k].high,
         low |-> bars[k].low, close |-> bars[k].close, volume |-> bars[k].volume]]

SeqsUpTo(S, n) == UNION { [1..m -> S] : m \in 0..n }

Periods == (-1)..MaxPeriod

\* ------------------------------------------------- JavaScript array helpers
length(arr) == Len(arr)

\* arr[idx] with a zero-based index; outside 0..length-1 the value is undefined.
Defined(arr, idx) == idx \in 0..(length(arr) - 1)
At(arr, idx) == arr[idx + 1]

\* Array.prototype.slice: a negative bound counts from the end, both bounds
\* are clamped to 0..length, and the array itself is left as it was.
Clamp(len, k) == IF k < 0 THEN Max2(len + k, 0) ELSE Min2(k, len)
SliceRange(arr, start, end) == Clamp(length(arr), start)..(Clamp(length(arr), end) - 1)
slice(arr, start, end) ==
    SubSeq(arr, Clamp(length(arr), start) + 1, Clamp(length(arr), end))

\* Math.max / Math.min over a spread array: -Infinity / Infinity when empty.
\* A level is [inf |-> -1 | 0 | 1, val |-> n].
RECURSIVE FoldMax(_)
FoldMax(s) == IF Len(s) = 1 THEN s[1] ELSE Max2(s[1], FoldMax(Tail(s)))
RECURSIVE FoldMin(_)
FoldMin(s) == IF Len(s) = 1 THEN s[1] ELSE Min2(s[1], FoldMin(Tail(s)))

MathMax(s) == IF s = <<>> THEN [inf |-> -1, val |-> 0] ELSE [inf |-> 0, val |-> FoldMax(s)]
MathMin(s) == IF s = <<>> THEN [inf |-> 1, val |-> 0] ELSE [inf |-> 0, val |-> FoldMin(s)]

\* x > level * permille / 1000 and x < level * permille / 1000.
Above(x, level, permille) ==
    IF level.inf = 0 THEN x * 1000 > level.val * permille ELSE level.inf < 0
Below(x, level, permille) ==
    IF level.inf = 0 THEN x * 1000 < level.val * permille ELSE level.inf > 0

\* ------------------------------------------------------------ detectBreakout
\* Variant of windowCandles that reaches one candle past the current one.
windowCandlesAhead(c, p, idx) == slice(c, idx - p, idx + 2)

\* The baseline window of index idx: the period candles before it.
windowCandles(c, p, idx) == slice(c, idx - p, idx)
currentCandle(c, idx) == At(c, idx)

highs(w) == [k \in 1..Len(w) |-> w[k].high]
lows(w) == [k \in 1..Len(w) |-> w[k].low]

resistance(c, p, idx) == MathMax(highs(windowCandles(c, p, idx)))
support(c, p, idx) == MathMin(lows(windowCandles(c, p, idx)))

\* Variants of the resistance test: against the bare level, and with the
\* factor of the support test.
ResistanceBreakoutUnscaled(cur, res) == Above(cur.close, res, 1000)
ResistanceBreakoutSwapped(cur, res) == Above(cur.close, res, SupportFactor)

\* The two tests with their 0.2% thresholds.
ResistanceBreakout(cur, res) == Above(cur.close, res, ResistanceFactor)
SupportBreakdown(cur, sup) == Below(cur.close, sup, SupportFactor)

\* Variant of the resistance confirmation: against the scaled threshold.
ResistanceConfirmedScaled(cur, res) ==
    Above(cur.close, res, ResistanceFactor) /\ Above(cur.open, res, ResistanceFactor)

\* The confirmation flags: open and close against the level itself.
ResistanceConfirmed(cur, res) == Above(cur.close, res, 1000) /\ Above(cur.open, res, 1000)
SupportConfirmed(cur, sup) == Below(cur.close, sup, 1000) /\ Below(cur.open, sup, 1000)

\* Variant of the resistance signal: priced at the open.
ResistanceSignalAtOpen(cur, res) ==
    [time |-> cur.time, type |-> "resistance", price |-> cur.open,
     confirmed |-> ResistanceConfirmed(cur, res)]

ResistanceSignal(cur, res) ==
    [time |-> cur.time, type |-> "resistance", price |-> cur.close,
     confirmed |-> ResistanceConfirmed(cur, res)]
SupportSignal(cur, sup) ==
    [time |-> cur.time, type |-> "support", price |-> cur.close,
     confirmed |-> SupportConfirmed(cur, sup)]

\* Variant of the loop body: the support test runs before the resistance test.
BodySupportFirst(c, p, idx, sigs) ==
    LET cur == currentCandle(c, idx)
        res == resistance(c, p, idx)
        sup == support(c, p, idx)
        afterSup == IF SupportBreakdown(cur, sup)
                    THEN Append(sigs, SupportSignal(cur, sup)) ELSE sigs
    IN  IF ResistanceBreakout(cur, res)
        THEN Append(afterSup, ResistanceSignal(cur, res)) ELSE afterSup

\* One pass of the loop body at index idx: the signals array after it.
Body(c, p, idx, sigs) ==
    LET cur == currentCandle(c, idx)
        res == resistance(c, p, idx)
        sup == support(c, p, idx)
        afterRes == IF ResistanceBreakout(cur, res)
                    THEN Append(sigs, ResistanceSignal(cur, res)) ELSE sigs
    IN  IF SupportBreakdown(cur, sup)
        THEN Append(afterRes, SupportSignal(cur, sup)) ELSE afterRes

\* The whole call as a function of its arguments, for the inputs on which it
\* returns (every index the loop visits holds a candle).
RECURSIVE Loop(_, _, _, _)
Loop(c, p, idx, sigs) ==
    IF idx < length(c) THEN Loop(c, p, idx + 1, Body(c, p, idx, sigs)) ELSE sigs
detectBreakout(c, p) == IF length(c) < p THEN <<>> ELSE Loop(c, p, p, <<>>)

\* ------------------------------------------------------------------- state
SortedTimes(n) == { Ascending(n) }
AnyTimes(n) == { Ascending(n), Descending(n), Constant(n) }

\* The candle arrays a call may be given: time-sorted market data, and
\* arrays on which nothing has been validated.
MarketInputs ==
    UNION { { Stamp(bars, times) : times \in SortedTimes(Len(bars)) } :
              bars \in SeqsUpTo(MarketCandles, MaxLen) }
LooseInputs ==
    UNION { { Stamp(bars, times) : times \in AnyTimes(Len(bars)) } :
              bars \in SeqsUpTo(LooseCandles, MaxLen) }

InitOver(Inputs) ==
    /\ candles \in Inputs
    /\ period \in Periods
    /\ given = candles
    /\ pc = "start"
    /\ i = 0
    /\ signals = <<>>
    /\ outcome = <<>>
    /\ reads = {}
    /\ second = FALSE
    /\ prev = <<>>

Init == InitOver(MarketInputs)
InitLoose == InitOver(LooseInputs)

\* Variants of Enter: rejecting a short input with an error, keeping the
\* signals array of the previous call, and starting the loop at index 0.
EnterRejecting ==
    /\ pc = "start"
    /\ signals' = <<>>
    /\ reads' = {}
    /\ IF length(candles) < period
       THEN pc' = "thrown" /\ outcome' = outcome /\ i' = i
       ELSE pc' = "loop" /\ outcome' = outcome /\ i' = period
    /\ UNCHANGED <<candles, period, second, prev, given>>

EnterKeeping ==
    /\ pc = "start"
    /\ signals' = signals
    /\ reads' = {}
    /\ IF length(candles) < period
       THEN pc' = "done" /\ outcome' = signals /\ i' = i
       ELSE pc' = "loop" /\ outcome' = outcome /\ i' = period
    /\ UNCHANGED <<candles, period, second, prev, given>>

EnterFromZero ==
    /\ pc = "start"
    /\ signals' = <<>>
    /\ reads' = {}
    /\ IF length(candles) < period
       THEN pc' = "done" /\ outcome' = <<>> /\ i' = i
       ELSE pc' = "loop" /\ outcome' = outcome /\ i' = 0
    /\ UNCHANGED <<candles, period, second, prev, given>>

\* Lines 36-41: the fresh signals array, the early return, the loop start.
Enter ==
    /\ pc = "start"
    /\ signals' = <<>>
    /\ reads' = {}
    /\ IF length(candles) < period
       THEN pc' = "done" /\ outcome' = <<>> /\ i' = i
       ELSE pc' = "loop" /\ outcome' = outcome /\ i' = period
    /\ UNCHANGED <<candles, period, second, prev, given>>

\* Lines 41-73: one iteration on a candle that exists.
Iterate ==
    /\ pc = "loop"
    /\ i < length(candles)
    /\ Defined(candles, i)
    /\ signals' = Body(candles, period, i, signals)
    /\ reads' = reads \cup SliceRange(candles, i - period, i) \cup {i}
    /\ i' = i + 1
    /\ UNCHANGED <<candles, period, pc, outcome, second, prev, given>>

\* Lines 42-53: candles[i] is undefined, so reading its close is a TypeError.
Throw ==
    /\ pc = "loop"
    /\ i < length(candles)
    /\ ~Defined(candles, i)
    /\ reads' = reads \cup SliceRange(candles, i - period, i) \cup {i}
    /\ pc' = "thrown"
    /\ UNCHANGED <<candles, period, i, signals, outcome, second, prev, given>>

\* Lines 41 and 75: the loop condition fails and the array is returned.
Return ==
    /\ pc = "loop"
    /\ i >= length(candles)
    /\ pc' = "done"
    /\ outcome' = signals
    /\ UNCHANGED <<candles, period, i, signals, reads, second, prev, given>>

\* The caller calls again with the same arguments.
Again ==
    /\ pc = "done"
    /\ ~second
    /\ second' = TRUE
    /\ prev' = outcome
    /\ pc' = "start"
    /\ UNCHANGED <<candles, period, i, signals, outcome, reads, given>>

Next == Enter \/ Iterate \/ Throw \/ Return \/ Again

Spec == Init /\ [][Next]_vars
SpecLoose == InitLoose /\ [][Next]_vars

\* ------------------------------------------------- vocabulary of the claims
\* Stated from the definitions of the levels, not from the code's operators.
Last == Len(candles) - 1
Candle(k) == candles[k + 1]
Returned == pc = "done"

\* The baseline of index k: the period candles before it, k itself excluded.
Baseline(k) == { j \in 0..Last : k - period <= j /\ j < k }
MaxHigh(k) ==
    CHOOSE m \in { Candle(j).high : j \in Baseline(k) } :
        \A j \in Baseline(k) : Candle(j).high <= m
MinLow(k) ==
    CHOOSE m \in { Candle(j).low : j \in Baseline(k) } :
        \A j \in Baseline(k) : m <= Candle(j).low

Scanned == { k \in 0..Last : k >= period }
DistinctTimes ==
    \A a, b \in 0..Last : a # b => Candle(a).time # Candle(b).time
IncreasingTimes ==
    \A a, b \in 0..Last : a < b => Candle(a).time < Candle(b).time

\* Positions of the returned signals that carry the time of candle k.
SignalsOf(k) == { n \in 1..Len(outcome) : outcome[n].time = Candle(k).time }
Emitted(k, type) == \E n \in SignalsOf(k) : outcome[n].type = type

PricesOf(c) == { c.open, c.high, c.low, c.close }
NonNegative == \A k \in 0..Last : \A x \in PricesOf(Candle(k)) : x >= 0
WellFormed ==
    \A k \in 0..Last :
        LET c == Candle(k)
        IN  0 <= c.low /\ c.low <= c.open /\ c.low <= c.close
              /\ c.open <= c.high /\ c.close <= c.high

\* ------------------------------------------------------------------ claims
\* C1: for window >= 1 and every index from window on, a resistance signal
\* is returned for the candle iff its close is strictly above 1.002 times
\* the highest high of the window previous candles, and a support signal iff
\* its close is strictly below 0.998 times their lowest low.
C1_ThresholdCorrectness ==
    (Returned /\ period >= 1 /\ DistinctTimes) =>
        \A k \in Scanned :
            /\ Emitted(k, "resistance") <=> Candle(k).close * 1000 > MaxHigh(k) * 1002
            /\ Emitted(k, "support") <=> Candle(k).close * 1000 < MinLow(k) * 998

\* A returned run in which one candle gave a signal and another closed
\* exactly on its resistance threshold and gave none.
C1_Witness ==
    /\ Returned /\ period >= 1 /\ DistinctTimes
    /\ \E k \in Scanned : Emitted(k, "support") \/ Emitted(k, "resistance")
    /\ \E k \in Scanned :
           /\ Candle(k).close * 1000 = MaxHigh(k) * 1002
           /\ SignalsOf(k) = {}

\* C2: a returned signal is confirmed iff both the open and the close of
\* its candle are strictly beyond the unscaled level of the window, that is
\* above every high (resistance) or below every low (support) of it.
C2_ConfirmationCorrectness ==
    (Returned /\ DistinctTimes) =>
        \A k \in Scanned : \A n \in SignalsOf(k) :
            outcome[n].confirmed <=>
                IF outcome[n].type = "resistance"
                THEN \A j \in Baseline(k) :
                         Candle(k).open > Candle(j).high /\ Candle(k).close > Candle(j).high
                ELSE \A j \in Baseline(k) :
                         Candle(k).open < Candle(j).low /\ Candle(k).close < Candle(j).low

\* A confirmed resistance signal whose open is beyond the level but not
\* beyond the scaled threshold, next to an unconfirmed support signal.
C2_Witness ==
    /\ Returned /\ period >= 1
    /\ \E k \in Scanned : \E n \in SignalsOf(k) :
           /\ outcome[n].type = "resistance" /\ outcome[n].confirmed
           /\ Candle(k).open * 1000 <= MaxHigh(k) * 1002
    /\ \E k \in Scanned : \E n \in SignalsOf(k) :
           /\ outcome[n].type = "support" /\ ~outcome[n].confirmed

\* C3: with fewer candles than the window the call returns the empty
\* sequence and raises nothing.
C3_InsufficientData ==
    Len(candles) < period =>
        /\ pc \in {"start", "done"}
        /\ pc = "done" => outcome = <<>>

\* A returned call on a non-empty sequence shorter than the window.
C3_Witness == Returned /\ Len(candles) >= 1 /\ Len(candles) < period

\* C4: with window <= 0 the call fails or returns no signals, and reads no
\* index outside 0..len-1.
C4_InvalidWindow ==
    period <= 0 =>
        /\ Returned => outcome = <<>>
        /\ reads \subseteq 0..Last

\* C5: for window >= 1 every returned signal carries the time and the close
\* of one candle at an index >= window, and none carries the time of one of
\* the first window candles.
C5_SignalProvenance ==
    (Returned /\ period >= 1) =>
        \A n \in 1..Len(outcome) :
            /\ \E k \in Scanned :
                   outcome[n].time = Candle(k).time /\ outcome[n].price = Candle(k).close
            /\ DistinctTimes =>
                   \A k \in 0..Last : k < period => outcome[n].time # Candle(k).time

\* A returned signal whose candle opened and closed at different prices,
\* behind a window of two candles.
C5_Witness ==
    /\ Returned /\ period = 2
    /\ \E k \in Scanned : \E n \in SignalsOf(k) : Candle(k).open # Candle(k).close

\* C6: with strictly increasing candle times the returned signals are in
\* non-decreasing time order, and two signals of one time are adjacent, the
\* resistance signal first and the support signal second.
C6_OutputOrdering ==
    (Returned /\ IncreasingTimes) =>
        \A a, b \in 1..Len(outcome) :
            a < b =>
                /\ outcome[a].time <= outcome[b].time
                /\ outcome[a].time = outcome[b].time =>
                       /\ b = a + 1
                       /\ outcome[a].type = "resistance"
                       /\ outcome[b].type = "support"

\* A returned run over increasing times in which one candle gave both
\* signals and a support signal precedes a later candle's resistance signal.
C6_Witness ==
    /\ Returned /\ IncreasingTimes /\ period >= 1
    /\ \E a, b \in 1..Len(outcome) :
           a < b /\ outcome[a].time = outcome[b].time
    /\ \E a, b \in 1..Len(outcome) :
           /\ a < b /\ outcome[a].time < outcome[b].time
           /\ outcome[a].type = "support" /\ outcome[b].type = "resistance"

\* C7: the call leaves the candle sequence as it was given, and a second
\* call with the same arguments returns what the first returned.
C7_Purity ==
    /\ candles = given
    /\ (Returned /\ second) => outcome = prev

\* A second call that has returned a non-empty result.
C7_Witness == Returned /\ second /\ period >= 1 /\ Len(outcome) >= 2

\* C8: for window >= 1 the result on every prefix of the candles is a
\* prefix of the result on all of them, and the signals of an index are
\* those the call gives on that candle with its window alone.
IsPrefix(a, b) == Len(a) <= Len(b) /\ a = SubSeq(b, 1, Len(a))
Prefix(k) == SubSeq(candles, 1, k)
C8_NoLookahead ==
    (Returned /\ period >= 1) =>
        /\ detectBreakout(candles, period) = outcome
        /\ \A k \in 0..Len(candles) :
               IsPrefix(detectBreakout(Prefix(k), period), outcome)
        /\ \A k \in Scanned :
               detectBreakout(Prefix(k + 1), period) =
                   detectBreakout(Prefix(k), period)
                       \o detectBreakout(SubSeq(candles, k - period + 1, k + 1), period)

\* A returned run whose result properly extends the non-empty result on a
\* prefix.
C8_Witness ==
    /\ Returned /\ period >= 1
    /\ \E k \in 0..Len(candles) :
           /\ detectBreakout(Prefix(k), period) # <<>>
           /\ detectBreakout(Prefix(k), period) # outcome

\* C9 as stated: on well-formed candles and window >= 1 no time carries two
\* signals and the result holds at most len(candles) - window signals.
C9_AsStated ==
    (Returned /\ period >= 1 /\ WellFormed) =>
        /\ DistinctTimes => \A k \in 0..Last : Cardinality(SignalsOf(k)) <= 1
        /\ Len(outcome) <= Len(candles) - period

\* C9: on well-formed candles and window >= 1 an iteration adds at most one
\* signal, no time of distinct-time candles carries two signals, and the
\* result holds at most max(0, len(candles) - window) signals.
C9_MutualExclusion ==
    /\ [][(period >= 1 /\ WellFormed) => Len(signals') <= Len(signals) + 1]_vars
    /\ []((Returned /\ period >= 1 /\ WellFormed) =>
            /\ DistinctTimes => \A k \in 0..Last : Cardinality(SignalsOf(k)) <= 1
            /\ Len(outcome) <= Max2(0, Len(candles) - period))

\* A returned run on well-formed candles where every scanned candle gave
\* its one signal.
C9_Witness ==
    /\ Returned /\ period >= 1 /\ WellFormed /\ DistinctTimes
    /\ Len(candles) - period >= 2
    /\ Len(outcome) = Len(candles) - period

\* C10: on non-negative prices and window >= 1 the close of every signalled
\* candle is strictly beyond the unscaled level, so confirmed is decided by
\* the open alone.
C10_CloseBeyondLevel ==
    (Returned /\ period >= 1 /\ NonNegative /\ DistinctTimes) =>
        \A k \in Scanned : \A n \in SignalsOf(k) :
            IF outcome[n].type = "resistance"
            THEN /\ Candle(k).close > MaxHigh(k)
                 /\ outcome[n].confirmed <=> Candle(k).open > MaxHigh(k)
            ELSE /\ Candle(k).close < MinLow(k)
                 /\ outcome[n].confirmed <=> Candle(k).open < MinLow(k)

\* A returned run on non-negative prices with an unconfirmed resistance
\* signal and a confirmed support signal.
C10_Witness ==
    /\ Returned /\ period >= 1 /\ NonNegative /\ DistinctTimes
    /\ \E n \in 1..Len(outcome) :
           outcome[n].type = "resistance" /\ ~outcome[n].confirmed
    /\ \E n \in 1..Len(outcome) :
           outcome[n].type = "support" /\ outcome[n].confirmed

====
